---- MODULE Spec2Model ----
(***************************************************************************)
(* Model of the NetMonkey network scanner                                  *)
(* (core/src/scanner.rs, create_network_scanner): one scan session, its    *)
(* spawned scanning task, the probe futures it joins, the unbounded mpsc   *)
(* channel it writes to and the consumer that drains or drops the          *)
(* receiving end.                                                          *)
(***************************************************************************)
EXTENDS Integers, Sequences, FiniteSets, TLC

(***************************************************************************)
(* Bounds of the model.                                                    *)
(***************************************************************************)
\* Largest number of probe futures the model dispatches in one session.
MaxTargets == 4
\* Largest round-trip time (ms) a reply is measured with.
MaxPingMs == 1

(***************************************************************************)
(* 32-bit unsigned values, kept as <<high 16 bits, low 16 bits>>.          *)
(***************************************************************************)
Half == 2 ^ 16

U32Max == <<Half - 1, Half - 1>>

U32Zero == <<0, 0>>

\* x >> s for 0 <= s < 32, in 32-bit unsigned arithmetic.
Shr32(x, s) ==
    IF s < 16
    THEN <<x[1] \div (2 ^ s), (x[2] \div (2 ^ s)) + (x[1] % (2 ^ s)) * (2 ^ (16 - s))>>
    ELSE <<0, x[1] \div (2 ^ (s - 16))>>

\* n <= x for a small natural n and a 32-bit x.
LeU32(n, x) == x[1] > 0 \/ n <= x[2]

\* The prefix lengths whose range the model can dispatch in full, and 32.
Prefixes == {p \in 2..32 : p = 32 \/ 2 ^ (32 - p) <= MaxTargets}

(***************************************************************************)
(* The outcome of `0xffffffff_u32 >> mask` (scanner.rs:144).  A shift by   *)
(* 32 or more overflows: a build with overflow checks panics, a build      *)
(* without them shifts by mask mod 32.                                     *)
(***************************************************************************)
ShiftPanics(m, checks) == m >= 32 /\ checks

IpRange(m) == Shr32(U32Max, m % 32)

(***************************************************************************)
(* Events of the channel (scanner.rs:180-185) and the value they carry     *)
(* (scanner.rs:7-12).  A target is named by its loop counter n.            *)
(***************************************************************************)
ScannedIp(ip, alive, ping, ports) ==
    [alive |-> alive, ip |-> ip, ping |-> ping, ports |-> ports]

Result(scanned_ip) == [type |-> "Result", ip |-> scanned_ip]

Complete == [type |-> "Complete"]

Outcomes == {"reply", "timeout", "error"}

VARIABLES
    mask,            \* the prefix length the scan was started with (u8)
    overflowChecks,  \* whether the build checks arithmetic overflow
    clientOk,        \* whether surge_ping::Client::new succeeds
    rx,              \* the receiving end: "none", "held" by the consumer,
                     \* "dropped" by it, or "closed" (recv returned None)
    pc,              \* position of the spawned scanning task
    ip_range,        \* 0xffffffff >> mask
    n,               \* loop counter of the dispatch loop / of the first poll
    ping_futures,    \* state of each probe future, in push order
    senders,         \* number of live sender handles (tx and its clones)
    sent,            \* every event placed on the channel, in order
    recvCount,       \* how many of them the consumer has received
    resolved         \* the probes in the order in which they resolved

\* The application's configuration (app/src/views/settings.rs:119-125) and
\* the value last computed from it.
VARIABLES
    subnet_mask,     \* config.subnet_mask (u8)
    config_ports,    \* config.ports, a list of u16
    starting_ip,     \* config.starting_ip, as a 32-bit address
    out,             \* the operation last applied to the configuration and
                     \* its result
    scan,            \* the scan started last: the configuration then in
                     \* force and the addresses it probes
    prev_scan,       \* the scan started before that one
    scan_progress,   \* IpScannerApp.scan_progress (u8); 255 is "no scan"
    ips_len,         \* the length of IpScannerApp.ips
    stream,          \* the scan subscription the runtime holds
    produced,        \* the Result events the held stream has yielded
    scanning,        \* BeginScan was processed and ScanComplete not since
    calls,           \* the callbacks scan_network_async has invoked
    ret,             \* what scan_network_async returned
    inbox,           \* the PingResult messages a stream has yielded that
                     \* update_state has not processed yet
    overflowed,      \* whether scan_progress += 1 was executed at 255, and
                     \* what the build made of it
    tab,             \* IpScannerApp.tab
    pingers,         \* the identifier and sequence number each probe of
                     \* the session was given, by target
    is_dragging,     \* SubnetSliderState.is_dragging
    event,           \* the event the slider's update handled last, and
                     \* where the cursor was
    returned,        \* what that call of update returned
    held             \* history: a left press inside the bounds has
                     \* occurred and no left release since

vars == <<mask, overflowChecks, clientOk, rx, pc, ip_range, n,
          ping_futures, senders, sent, recvCount, resolved,
          subnet_mask, config_ports, starting_ip, out, scan, prev_scan,
          scan_progress, ips_len, stream, produced, scanning, calls, ret,
          inbox, overflowed, tab, pingers, is_dragging, event, returned, held>>

\* The scans the application has started.
scans == <<scan, prev_scan>>

\* The scan page of the application.
gui == <<scan_progress, ips_len, stream, produced, scanning>>

\* The callback variant's effects.
callbacks == <<calls, ret>>

\* The messages in flight, the fate of the progress counter and the tab.
runtime == <<inbox, overflowed, tab>>

\* The subnet slider: its state, its last call and the user's gesture.
slider == <<is_dragging, event, returned, held>>

\* The state of the application around a scan session.
app == <<subnet_mask, config_ports, starting_ip, out, scans, gui, callbacks, runtime,
         slider, pingers>>

\* What a scan session does not change: its inputs and the application.
env == <<mask, overflowChecks, clientOk, app>>

\* The state of a scan session.
session == <<mask, clientOk, rx, pc, ip_range, n,
             ping_futures, senders, sent, recvCount, resolved>>

\* The events waiting in the channel.
chan == IF rx = "held" THEN SubSeq(sent, recvCount + 1, Len(sent)) ELSE <<>>

\* The events the consumer has received.
received == SubSeq(sent, 1, recvCount)

\* Nothing computed.
NoOut == [op |-> "none", value |-> <<>>]

\* No event handled yet, the cursor away from the slider.
NoEvent == [kind |-> "none", inside |-> FALSE, x |-> 0]

\* Nothing returned yet by the slider's update.
NoReturn == [status |-> "none", message |-> <<>>]

\* No scan started.
NoScan == [started |-> FALSE, ip |-> U32Zero, mask |-> 0, first |-> U32Zero, last |-> U32Zero]

\* Ipv4Addr::new(a, b, c, d) as a 32-bit value.
Ipv4Addr(a, b, c, d) == <<a * 256 + b, c * 256 + d>>

\* AppConfig::default (settings.rs:126-136) and IpScannerApp::default
\* (settings.rs:326-350), the configuration loaded; nothing computed, no
\* scan started, no callback variant called.
AppInit ==
    /\ subnet_mask = 24
    /\ config_ports = <<80, 443>>
    /\ starting_ip = Ipv4Addr(192, 168, 1, 1)
    /\ out = NoOut
    /\ scan = NoScan
    /\ prev_scan = NoScan
    /\ scan_progress = 255
    /\ ips_len = 0
    /\ stream = "none"
    /\ produced = 0
    /\ scanning = FALSE
    /\ calls = <<>>
    /\ ret = "none"
    /\ inbox = 0
    /\ overflowed = "no"
    /\ tab = "IpScan"
    /\ pingers = {}
    /\ is_dragging = FALSE
    /\ event = NoEvent
    /\ returned = NoReturn
    /\ held = FALSE

Init ==
    /\ AppInit
    /\ mask \in Prefixes
    /\ overflowChecks \in BOOLEAN
    /\ clientOk \in BOOLEAN
    /\ rx = "none"
    /\ pc = "none"
    /\ ip_range = U32Zero
    /\ n = 0
    /\ ping_futures = <<>>
    /\ senders = 0
    /\ sent = <<>>
    /\ recvCount = 0
    /\ resolved = <<>>

(***************************************************************************)
(* tx.send on the unbounded channel (scanner.rs:160, 172): never blocks;   *)
(* it places the event at the back of the queue unless the receiving end   *)
(* is gone, in which case it returns an error.                             *)
(***************************************************************************)
SendOk == rx = "held"

\* A queue kept in target order: a Result goes before the Results of
\* higher targets.
SendPlacedSorted(q, ev) ==
    IF ev.type = "Result" /\ \E j \in 1..Len(q) : q[j].type = "Result" /\ q[j].ip.ip > ev.ip.ip
    THEN LET j == CHOOSE k \in 1..Len(q) :
                      /\ q[k].type = "Result" /\ q[k].ip.ip > ev.ip.ip
                      /\ \A l \in 1..(k - 1) : ~(q[l].type = "Result" /\ q[l].ip.ip > ev.ip.ip)
         IN  SubSeq(q, 1, j - 1) \o <<ev>> \o SubSeq(q, j, Len(q))
    ELSE Append(q, ev)

SendPlaced(q, ev) == Append(q, ev)

\* The channel after the events evs have been sent, in order.
RECURSIVE SendAll(_, _)
SendAll(q, evs) ==
    IF evs = <<>> \/ ~SendOk THEN q
    ELSE SendAll(SendPlaced(q, Head(evs)), Tail(evs))

\* `tx.send(..).unwrap()`: a failed send panics.
AfterSendUnwrap(ok, next) == IF ok THEN next ELSE "panicked"

\* `let _ = tx.send(..)` (scanner.rs:160, 172): the result is discarded.
AfterSend(ok, next) == next

(***************************************************************************)
(* What a probe future sends when its ping resolves (scanner.rs:152-165).  *)
(***************************************************************************)
\* Every outcome is reported, a failure as alive = false.
ProbeEventsAll(t, o, d) ==
    IF o = "reply" THEN <<Result(ScannedIp(t, TRUE, d, <<>>))>>
    ELSE <<Result(ScannedIp(t, FALSE, 0, <<>>))>>

\* Nothing is reported.
ProbeEventsNone(t, o, d) == <<>>

\* A failure is reported too, with the ports of a port probe.
ProbeEventsDeadPorts(t, o, d) ==
    IF o = "reply" THEN <<Result(ScannedIp(t, TRUE, d, <<>>))>>
    ELSE <<Result(ScannedIp(t, FALSE, 0, <<80>>))>>

\* A reply is reported twice.
ProbeEventsTwice(t, o, d) ==
    IF o = "reply"
    THEN <<Result(ScannedIp(t, TRUE, d, <<>>)), Result(ScannedIp(t, TRUE, d, <<>>))>>
    ELSE <<>>

ProbeEvents(t, o, d) ==
    IF o = "reply" THEN <<Result(ScannedIp(t, TRUE, d, <<>>))>>
    ELSE <<>>

\* A probe future that has resolved.
IsResolved(f) == f \in Outcomes

\* join_all (scanner.rs:171) is ready when every future has resolved.
AnyResolved == \E i \in 1..Len(ping_futures) : IsResolved(ping_futures[i])

AllResolved == \A i \in 1..Len(ping_futures) : IsResolved(ping_futures[i])

\* The sender handles left when a resolved future, and its tx clone, is dropped.
KeepClone(s) == s

DropClone(s) == s - 1

\* The sender handles left when the task's block ends and tx is dropped.
KeepTx(s) == s

DropTx(s) == s - 1

(***************************************************************************)
(* create_network_scanner (scanner.rs:133-176).                            *)
(***************************************************************************)
\* scanner.rs:137-140, 175: the channel is created, the task spawned and
\* the receiver returned to the caller.
StartScan ==
    /\ pc = "none"
    /\ rx' = "held"
    /\ senders' = 1
    /\ pc' = "spawned"
    /\ UNCHANGED <<env, ip_range, n, ping_futures, sent, recvCount, resolved>>

\* scanner.rs:141: Client::new(..).unwrap(); a panic unwinds the task and
\* drops tx.
CreateClient ==
    /\ pc = "spawned"
    /\ IF clientOk
       THEN pc' = "range" /\ UNCHANGED senders
       ELSE pc' = "panicked" /\ senders' = DropTx(senders)
    /\ UNCHANGED <<env, rx, ip_range, n, ping_futures, sent, recvCount, resolved>>

\* scanner.rs:143-144.
ComputeRange ==
    /\ pc = "range"
    /\ IF ShiftPanics(mask, overflowChecks)
       THEN pc' = "panicked" /\ senders' = DropTx(senders) /\ UNCHANGED ip_range
       ELSE pc' = "dispatch" /\ ip_range' = IpRange(mask) /\ UNCHANGED senders
    /\ n' = 0
    /\ UNCHANGED <<env, rx, ping_futures, sent, recvCount, resolved>>

\* scanner.rs:145-168: one iteration of `for n in 0..=ip_range`; the future
\* is built with its own clone of tx and pushed, not yet polled.
Dispatch ==
    /\ pc = "dispatch"
    /\ LeU32(n, ip_range)
    /\ n < MaxTargets
    /\ ping_futures' = Append(ping_futures, "created")
    /\ senders' = senders + 1
    /\ n' = n + 1
    /\ UNCHANGED <<env, rx, pc, ip_range, sent, recvCount, resolved>>

\* scanner.rs:168-171: the loop is over, join_all takes the futures.
EndDispatch ==
    /\ pc = "dispatch"
    /\ ~LeU32(n, ip_range)
    /\ pc' = "poll"
    /\ n' = 0
    /\ UNCHANGED <<env, rx, ip_range, ping_futures, senders, sent, recvCount, resolved>>

\* Probe future i resolves with outcome o and round-trip time d
\* (scanner.rs:151-165): it sends what ProbeEvents says, and is dropped with
\* its clone of tx.
ResolveProbe(i, o, d) ==
    /\ ping_futures' = [ping_futures EXCEPT ![i] = o]
    /\ sent' = SendAll(sent, ProbeEvents(i - 1, o, d))
    /\ senders' = DropClone(senders)
    /\ resolved' = Append(resolved, i - 1)

\* Probes awaited one after the other: a probe is started only once the
\* one before it has resolved.
PollFirstSequential ==
    /\ pc = "poll"
    /\ n < Len(ping_futures)
    /\ n = 0 \/ IsResolved(ping_futures[n])
    /\ \/ /\ ping_futures' = [ping_futures EXCEPT ![n + 1] = "inflight"]
          /\ pc' = IF n + 1 = Len(ping_futures) THEN "joining" ELSE "poll"
          /\ UNCHANGED <<sent, senders, resolved>>
       \/ /\ ResolveProbe(n + 1, "error", 0)
          /\ pc' = IF n + 1 = Len(ping_futures) THEN "joining" ELSE "poll"
    /\ n' = n + 1
    /\ UNCHANGED <<env, rx, ip_range, recvCount>>

\* scanner.rs:171: the first poll of join_all polls every future once, in
\* push order; the ping is then in flight, unless the transport refuses it
\* at once.
PollFirst ==
    /\ pc = "poll"
    /\ n < Len(ping_futures)
    /\ \/ /\ ping_futures' = [ping_futures EXCEPT ![n + 1] = "inflight"]
          /\ pc' = IF n + 1 = Len(ping_futures) THEN "joining" ELSE "poll"
          /\ UNCHANGED <<sent, senders, resolved>>
       \/ /\ ResolveProbe(n + 1, "error", 0)
          /\ pc' = AfterSend(SendOk \/ ProbeEvents(n, "error", 0) = <<>>,
                             IF n + 1 = Len(ping_futures) THEN "joining" ELSE "poll")
    /\ n' = n + 1
    /\ UNCHANGED <<env, rx, ip_range, recvCount>>

\* scanner.rs:151-165, 171: a ping in flight resolves by a reply, by its
\* 5000 ms timeout or by a transport error.
Resolve ==
    /\ pc = "joining"
    /\ \E i \in 1..Len(ping_futures), o \in Outcomes, d \in 0..MaxPingMs :
          /\ ping_futures[i] = "inflight"
          /\ o = "reply" \/ d = 0
          /\ ResolveProbe(i, o, d)
          /\ pc' = AfterSend(SendOk \/ ProbeEvents(i - 1, o, d) = <<>>, pc)
    /\ UNCHANGED <<env, rx, ip_range, n, recvCount>>

\* Complete sent without awaiting the join: the probes go on resolving.
SendCompleteUnjoined ==
    /\ pc = "joining"
    /\ \A j \in 1..Len(sent) : sent[j] # Complete
    /\ sent' = SendAll(sent, <<Complete>>)
    /\ UNCHANGED <<env, rx, pc, ip_range, n, ping_futures, senders, recvCount, resolved>>

\* scanner.rs:171-172: join_all is ready; Complete is sent.
SendComplete ==
    /\ pc = "joining"
    /\ AllResolved
    /\ sent' = SendAll(sent, <<Complete>>)
    /\ pc' = AfterSend(SendOk, "complete")
    /\ UNCHANGED <<env, rx, ip_range, n, ping_futures, senders, recvCount, resolved>>

\* scanner.rs:173: the block ends and tx is dropped.
TaskEnd ==
    /\ pc = "complete"
    /\ senders' = DropTx(senders)
    /\ pc' = "done"
    /\ UNCHANGED <<env, rx, ip_range, n, ping_futures, sent, recvCount, resolved>>

(***************************************************************************)
(* The consumer (app/src/views/ip_scan.rs:101-109).                        *)
(***************************************************************************)
\* rx.recv().await: the next event, or None once the queue is empty and
\* every sender is gone; the stream then ends.
Recv ==
    /\ rx = "held"
    /\ \/ /\ recvCount < Len(sent)
          /\ recvCount' = recvCount + 1
          /\ UNCHANGED rx
       \/ /\ recvCount = Len(sent)
          /\ senders = 0
          /\ rx' = "closed"
          /\ UNCHANGED recvCount
    /\ UNCHANGED <<env, pc, ip_range, n, ping_futures, senders, sent, resolved>>

\* The consumer abandons the session: the receiver is dropped.
DropRx ==
    /\ rx = "held"
    /\ rx' = "dropped"
    /\ UNCHANGED <<env, pc, ip_range, n, ping_futures, senders, sent, recvCount, resolved>>

TaskStep ==
    \/ CreateClient
    \/ ComputeRange
    \/ Dispatch
    \/ EndDispatch
    \/ PollFirst
    \/ Resolve
    \/ SendComplete
    \/ TaskEnd

Next ==
    \/ StartScan
    \/ CreateClient
    \/ ComputeRange
    \/ Dispatch
    \/ EndDispatch
    \/ PollFirst
    \/ Resolve
    \/ SendComplete
    \/ TaskEnd
    \/ Recv
    \/ DropRx

Spec == Init /\ [][Next]_vars

\* The runtime keeps polling the spawned task, and every ping resolves (by
\* its timeout at the latest).
FairSpec == Spec /\ WF_vars(TaskStep)

(***************************************************************************)
(* Vocabulary of the properties.                                           *)
(***************************************************************************)
IsResult(e) == e.type = "Result"

CompleteEmitted == \E j \in 1..Len(sent) : sent[j] = Complete

\* The Result events placed on the channel before a Complete event.
ResultsBeforeComplete ==
    {j \in 1..Len(sent) : IsResult(sent[j]) /\ \E k \in (j + 1)..Len(sent) : sent[k] = Complete}

Replied == {i \in 1..Len(ping_futures) : ping_futures[i] = "reply"}

Failed == {i \in 1..Len(ping_futures) : ping_futures[i] \in {"timeout", "error"}}

\* The targets whose Result is on the channel.
Reported == {sent[j].ip.ip : j \in {k \in 1..Len(sent) : IsResult(sent[k])}}

\* The size K of the range the session derived, when it fits the model.
RangeDispatched == ip_range[1] = 0 /\ Len(ping_futures) = ip_range[2] + 1

\* The position of target t in the order of resolution.
ResolvedAt(t) == CHOOSE j \in 1..Len(resolved) : resolved[j] = t

\* The session's range is one the model dispatches in full (or the range
\* computation panics): the dispatch loop is not cut short by MaxTargets.
RangeInModel == ShiftPanics(mask, overflowChecks) \/ ~LeU32(MaxTargets, IpRange(mask))

\* 2^(32-p) - 1 as a 32-bit value, for p in 1..32.
MaxOffset(p) ==
    IF 32 - p >= 16 THEN <<2 ^ (16 - p) - 1, Half - 1>> ELSE <<0, 2 ^ (32 - p) - 1>>

C3_CompleteIsLast ==
    \A j \in 1..Len(sent) : sent[j] = Complete => j = Len(sent)

C3_Witness ==
    /\ Len(sent) >= 3
    /\ sent[Len(sent)] = Complete
    /\ \A j \in 1..(Len(sent) - 1) : IsResult(sent[j])

C5_EventuallyComplete ==
    (pc = "spawned" /\ RangeInModel) ~> (CompleteEmitted \/ rx = "dropped")

(***************************************************************************)
(* C6: the Result events are on the channel in the order in which their    *)
(* probes resolved, whatever the order of the targets in the range.        *)
(***************************************************************************)
C6_CompletionOrder ==
    \A j, k \in 1..Len(sent) :
        (j < k /\ IsResult(sent[j]) /\ IsResult(sent[k])) =>
            /\ \E a, b \in 1..Len(resolved) :
                  resolved[a] = sent[j].ip.ip /\ resolved[b] = sent[k].ip.ip
            /\ ResolvedAt(sent[j].ip.ip) < ResolvedAt(sent[k].ip.ip)

C6_Witness ==
    \E j, k \in 1..Len(sent) :
        /\ j < k
        /\ IsResult(sent[j]) /\ IsResult(sent[k])
        /\ sent[j].ip.ip > sent[k].ip.ip

(***************************************************************************)
(* C7: once the receiver is dropped the task is never blocked (it can      *)
(* always take its next step, and every ping in flight can still resolve), *)
(* no send makes it panic (it panics only before any probe exists), and    *)
(* every later send fails silently: nothing more is placed on the channel. *)
(***************************************************************************)
C7_DropNeverBlocks ==
    /\ [][rx = "dropped" =>
            /\ sent' = sent
            /\ (pc' = "panicked" => pc \in {"spawned", "range"})]_vars
    /\ [](rx = "dropped" =>
            /\ pc \in {"poll", "joining", "complete"} => ENABLED TaskStep
            /\ (pc = "joining" /\ ~AllResolved) => ENABLED Resolve
            /\ pc = "panicked" => ping_futures = <<>>)

C7_Witness ==
    /\ rx = "dropped"
    /\ pc = "done"
    /\ sent = <<>>
    /\ Cardinality(Replied) = Len(ping_futures)
    /\ Len(ping_futures) = 4

(***************************************************************************)
(* C8: under fairness, after the receiver is dropped at any point of a     *)
(* session the scanning task eventually ends, with every dispatched probe  *)
(* resolved and no sender handle left: the channel, with neither receiver  *)
(* nor sender, is closed.  Stated for the sessions whose range the model   *)
(* dispatches in full.                                                     *)
(***************************************************************************)
C8_CancelReleases ==
    (rx = "dropped" /\ RangeInModel) ~>
        (pc \in {"done", "panicked"} /\ AllResolved /\ senders = 0 /\ rx = "dropped")

C8_Witness ==
    /\ rx = "dropped"
    /\ pc = "done"
    /\ senders = 0
    /\ Len(sent) = 1
    /\ Cardinality(Replied) = 2
    /\ Failed # {}

(***************************************************************************)
(* C9: if the probing client cannot be created, starting the scan fails:   *)
(* no channel is handed to the caller, no probe is dispatched and no event *)
(* is produced.                                                            *)
(***************************************************************************)
C9_SetupFailureNoChannel ==
    ~clientOk => (rx = "none" /\ ping_futures = <<>> /\ sent = <<>>)

(***************************************************************************)
(* C10: a scan started with prefix p in 1..32 derives exactly 2^(32-p)     *)
(* targets: the loop runs over 0..=2^(32-p)-1; prefix 32 gives one target. *)
(***************************************************************************)
C10_RangeSize ==
    (clientOk /\ pc \notin {"none", "spawned", "range"}) =>
        pc # "panicked" /\ ip_range = MaxOffset(mask)

(***************************************************************************)
(* C16: every outcome carried by a Result event on the channel satisfies:  *)
(* alive = false implies that the list of open ports is empty.             *)
(***************************************************************************)
C16_DeadHasNoPorts ==
    \A j \in 1..Len(sent) :
        IsResult(sent[j]) => (sent[j].ip.alive = FALSE => sent[j].ip.ports = <<>>)

C16_Witness ==
    /\ recvCount >= 2
    /\ \A j \in 1..2 : IsResult(received[j]) /\ received[j].ip.ports = <<>>
    /\ Failed # {}

(***************************************************************************)
(* C17: within a session one probe future is built per target of the      *)
(* range, each resolves once, and no target has two Result events; every   *)
(* Result is about a target of the session's range.                        *)
(***************************************************************************)
C17_OneResultPerTarget ==
    /\ \A j, k \in 1..Len(sent) :
          (IsResult(sent[j]) /\ IsResult(sent[k]) /\ sent[j].ip.ip = sent[k].ip.ip) => j = k
    /\ \A t \in Reported : t \in 0..(Len(ping_futures) - 1) /\ LeU32(t, ip_range)
    /\ \A j, k \in 1..Len(resolved) : resolved[j] = resolved[k] => j = k
    /\ \A i \in 1..Len(ping_futures) :
          IsResolved(ping_futures[i]) <=> \E j \in 1..Len(resolved) : resolved[j] = i - 1
    /\ pc \in {"poll", "joining", "complete", "done"} => RangeDispatched

C17_Witness ==
    /\ pc = "done"
    /\ Reported = 0..3
    /\ Len(sent) = 5

(***************************************************************************)
(* C20: dispatch is a full fan-out: the loop builds every probe without    *)
(* polling any, and the first poll of the join starts each probe without   *)
(* waiting for another: while probes are still being started none has      *)
(* been answered or has timed out, and the next one can always be started. *)
(***************************************************************************)
C20_FullFanOut ==
    /\ pc = "dispatch" => \A i \in 1..Len(ping_futures) : ping_futures[i] = "created"
    /\ pc = "poll" =>
          /\ ENABLED PollFirst
          /\ \A i \in 1..Len(ping_futures) :
                /\ ping_futures[i] \notin {"reply", "timeout"}
                /\ i > n => ping_futures[i] = "created"

C20_Witness ==
    /\ pc = "joining"
    /\ Len(ping_futures) = 4
    /\ \A i \in 1..Len(ping_futures) : ping_futures[i] = "inflight"

(***************************************************************************)
(* The configuration and the operations that consume a prefix length.      *)
(* Strings are sequences of characters.                                    *)
(***************************************************************************)
MaxStrLen == 2

DigitChars == <<"0", "1", "2", "3", "4", "5", "6", "7", "8", "9">>

IsDigit(c) == \E i \in 1..Len(DigitChars) : DigitChars[i] = c

DigitVal(c) == (CHOOSE i \in 1..Len(DigitChars) : DigitChars[i] = c) - 1

\* The characters a ChangeConfig string is made of: the digits, a sign and a
\* character that is neither.
Alphabet == {DigitChars[i] : i \in 1..Len(DigitChars)} \cup {"+", "x"}

Strings == UNION {[1..k -> Alphabet] : k \in 0..MaxStrLen}

\* u8::to_string and the "{}" of format!: decimal, no leading zeros.
RECURSIVE to_string(_)
to_string(v) ==
    IF v < 10
    THEN <<DigitChars[v + 1]>>
    ELSE Append(to_string(v \div 10), DigitChars[(v % 10) + 1])

\* format!("{}.{}.{}.{}", a, b, c, d)
Dotted(a, b, c, d) ==
    to_string(a) \o <<".">> \o to_string(b) \o <<".">> \o to_string(c) \o <<".">> \o to_string(d)

Ok(v) == [ok |-> TRUE, val |-> v]

Err == [ok |-> FALSE, val |-> 0]

\* The digit loop of str::parse::<u8>: a character that is no digit is an
\* error, and so is a value that leaves the u8 range.
RECURSIVE ParseDigits(_, _)
ParseDigits(ds, acc) ==
    IF ds = <<>> THEN Ok(acc)
    ELSE IF ~IsDigit(Head(ds)) THEN Err
    ELSE LET v == acc * 10 + DigitVal(Head(ds))
         IN  IF v > 255 THEN Err ELSE ParseDigits(Tail(ds), v)

\* str::parse::<u8> (settings.rs:164): the empty string and a lone sign are
\* errors; one leading "+" is accepted.
ParseU8(str) ==
    IF str = <<>> THEN Err
    ELSE IF Len(str) = 1 /\ str[1] = "+" THEN Err
    ELSE IF str[1] = "+" THEN ParseDigits(Tail(str), 0)
    ELSE ParseDigits(str, 0)

\* Result::unwrap_or_default (settings.rs:164): the u8 default is 0.
UnwrapOrDefault(r) == IF r.ok THEN r.val ELSE 0

\* u8::clamp(1, 32) (subnet_slider.rs:58, 87)
Clamp(v) == IF v < 1 THEN 1 ELSE IF v > 32 THEN 32 ELSE v

\* x << s for 0 <= s < 32, in 32-bit unsigned arithmetic.
Shl32(x, s) ==
    IF s < 16
    THEN <<((x[1] * (2 ^ s)) % Half) + (x[2] \div (2 ^ (16 - s))), (x[2] * (2 ^ s)) % Half>>
    ELSE <<(x[2] * (2 ^ (s - 16))) % Half, 0>>

\* (x >> s) & 0xFF
Octet(x, s) == Shr32(x, s)[2] % 256

to_dotted_decimal_shift_by_cidr(cidr) ==
    LET c    == Clamp(cidr)
        m    == Shl32(U32Max, c % 32)
    IN  Dotted(Octet(m, 24), Octet(m, 16), Octet(m, 8), Octet(m, 0))

\* SubnetSlider::to_dotted_decimal (subnet_slider.rs:85-100)
to_dotted_decimal(cidr) ==
    LET c    == Clamp(cidr)
        m    == IF c = 32 THEN U32Max ELSE Shl32(U32Max, 32 - c)
    IN  Dotted(Octet(m, 24), Octet(m, 16), Octet(m, 8), Octet(m, 0))

\* The octet shifted right.
left_shift_to_the_right(sm, value) ==
    IF sm < value
    THEN IF value - sm > 7
         THEN 0
         ELSE 255 \div (2 ^ (IF value - sm < 8 THEN value - sm ELSE 8))
    ELSE 255

\* AppConfig::left_shift (settings.rs:145-151), in 8-bit arithmetic.
left_shift(sm, value) ==
    IF sm < value
    THEN IF value - sm > 7
         THEN 0
         ELSE (255 * (2 ^ (IF value - sm < 8 THEN value - sm ELSE 8))) % 256
    ELSE 255

\* AppConfig::subnet_mask_long (settings.rs:152-160)
subnet_mask_long(sm) ==
    Dotted(left_shift(sm, 8), left_shift(sm, 16), left_shift(sm, 24), left_shift(sm, 32))

\* An f32 is the pair of a 24-bit mantissa m and an exponent e: the value
\* m * 2^-(23 + e), with m in 2^23 .. 2^24 - 1, or zero.
F32Zero == [m |-> 0, e |-> 0]

F32One == [m |-> 2 ^ 23, e |-> 0]

\* k / 31.0 in f32 for an integer k in 0..32: the quotient rounded to the
\* nearest 24-bit mantissa (31 is odd: no tie occurs).
F32DivBy31(k) ==
    IF k = 0 THEN F32Zero
    ELSE LET e   == CHOOSE x \in 0..5 : 31 <= k * (2 ^ x) /\ k * (2 ^ x) < 62
             num == k * (2 ^ (23 + e))
             q   == (num \div 31) + (IF 2 * (num % 31) > 31 THEN 1 ELSE 0)
         IN  IF q = 2 ^ 24 THEN [m |-> 2 ^ 23, e |-> e - 1] ELSE [m |-> q, e |-> e]

\* The value itself divided, not the value less one.
fill_percentage_from_zero(value) == F32DivBy31(value)

\* SubnetSlider::fill_percentage (subnet_slider.rs:104-106):
\* (self.value as f32 - 1.0) / 31.0; the conversion and the subtraction
\* are exact.
fill_percentage(value) == F32DivBy31(value - 1)

\* The range size computation of create_network_scanner (scanner.rs:144):
\* the greatest offset of the loop, or a panic.
range_size(m, checks) == IF ShiftPanics(m, checks) THEN "panic" ELSE IpRange(m)

\* No session of the channel scanner.
NoSession ==
    /\ mask = 24
    /\ clientOk = TRUE
    /\ rx = "none"
    /\ pc = "none"
    /\ ip_range = U32Zero
    /\ n = 0
    /\ ping_futures = <<>>
    /\ senders = 0
    /\ sent = <<>>
    /\ recvCount = 0
    /\ resolved = <<>>

\* What the operations on the configuration leave alone.
beside_config ==
    <<session, overflowChecks, config_ports, starting_ip, scans, gui, callbacks, runtime,
      slider, pingers>>

ConfigInit ==
    /\ AppInit
    /\ NoSession
    /\ overflowChecks \in BOOLEAN

\* AppConfig::update with ChangeConfig::SubnetMask (settings.rs:161-164); the
\* views are rebuilt from the new configuration.
UpdateSubnetMask ==
    \E str \in Strings :
        /\ subnet_mask' = UnwrapOrDefault(ParseU8(str))
        /\ out' = NoOut
        /\ UNCHANGED beside_config

\* SubnetSlider::new (subnet_slider.rs:52-63): the value the slider holds.
SliderNew ==
    /\ out' = [op |-> "new", value |-> Clamp(subnet_mask)]
    /\ UNCHANGED <<beside_config, subnet_mask>>

ToDottedDecimal ==
    /\ out' = [op |-> "to_dotted_decimal", value |-> to_dotted_decimal(subnet_mask)]
    /\ UNCHANGED <<beside_config, subnet_mask>>

SubnetMaskLong ==
    /\ out' = [op |-> "subnet_mask_long", value |-> subnet_mask_long(subnet_mask)]
    /\ UNCHANGED <<beside_config, subnet_mask>>

RangeSize ==
    /\ out' = [op |-> "range_size", value |-> range_size(subnet_mask, overflowChecks)]
    /\ UNCHANGED <<beside_config, subnet_mask>>

\* SubnetSlider::new(..).fill_percentage() (subnet_slider.rs:52-63, 104-106).
FillPercentage ==
    /\ out' = [op |-> "fill_percentage", value |-> fill_percentage(Clamp(subnet_mask))]
    /\ UNCHANGED <<beside_config, subnet_mask>>

ConfigNext ==
    \/ UpdateSubnetMask
    \/ SliderNew
    \/ ToDottedDecimal
    \/ SubnetMaskLong
    \/ RangeSize
    \/ FillPercentage

ConfigSpec == ConfigInit /\ [][ConfigNext]_vars

Computed(op) == out.op = op

\* Octet k (0 is the most significant) of the 32-bit mask whose p most
\* significant bits are 1.
PrefixOctet(p, k) ==
    LET ones == IF p - 8 * k < 0 THEN 0 ELSE IF p - 8 * k > 8 THEN 8 ELSE p - 8 * k
    IN  256 - 2 ^ (8 - ones)

\* C12: for every prefix length p in [1,32], to_dotted_decimal(p) is the
\* dotted-decimal form of the mask whose p most significant bits are 1 and
\* whose other bits are 0; 24, 16, 8 and 32 give 255.255.255.0, 255.255.0.0,
\* 255.0.0.0 and 255.255.255.255.
C12_DottedDecimal ==
    (Computed("to_dotted_decimal") /\ subnet_mask \in 1..32) =>
        /\ out.value = Dotted(PrefixOctet(subnet_mask, 0), PrefixOctet(subnet_mask, 1),
                              PrefixOctet(subnet_mask, 2), PrefixOctet(subnet_mask, 3))
        /\ subnet_mask = 24 =>
               out.value = <<"2", "5", "5", ".", "2", "5", "5", ".", "2", "5", "5", ".", "0">>
        /\ subnet_mask = 16 =>
               out.value = <<"2", "5", "5", ".", "2", "5", "5", ".", "0", ".", "0">>
        /\ subnet_mask = 8 =>
               out.value = <<"2", "5", "5", ".", "0", ".", "0", ".", "0">>
        /\ subnet_mask = 32 =>
               out.value = <<"2", "5", "5", ".", "2", "5", "5", ".", "2", "5", "5", ".", "2", "5", "5">>

C12_Witness ==
    /\ Computed("to_dotted_decimal")
    /\ subnet_mask = 20
    /\ out.value = <<"2", "5", "5", ".", "2", "5", "5", ".", "2", "4", "0", ".", "0">>

\* C18: starting from the default configuration, after any sequence of
\* AppConfig::update calls, including SubnetMask with an arbitrary string,
\* config.subnet_mask lies in [1,32].
C18_MaskInRange == subnet_mask \in 1..32

\* C19: for every u8 value v, each operation that consumes a prefix length
\* (SubnetSlider::new, to_dotted_decimal, subnet_mask_long, the range size
\* computation) behaves exactly as it does for v clamped into [1,32].
C19_ClampEverywhere ==
    /\ Computed("new") => out.value = Clamp(Clamp(subnet_mask))
    /\ Computed("to_dotted_decimal") => out.value = to_dotted_decimal(Clamp(subnet_mask))
    /\ Computed("subnet_mask_long") => out.value = subnet_mask_long(Clamp(subnet_mask))
    /\ Computed("range_size") => out.value = range_size(Clamp(subnet_mask), overflowChecks)

(***************************************************************************)
(* The scan page of the application: the messages that start and feed a    *)
(* scan (main.rs:230-250), the subscription that follows scan_progress     *)
(* (main.rs:276-283) and the addresses a scan probes.                      *)
(***************************************************************************)
\* The last host octet of the probe loop, `for n in 0..=255`
\* (src/views/ip_scan.rs:64, scanner.rs:74).
LastHost == 255

\* The n-th address a scan probes (src/views/ip_scan.rs:65, scanner.rs:75).
ScanTarget(k) == Ipv4Addr(192, 168, 1, k)

\* The scan started under the configuration (ip, sm): the loop and its
\* addresses use neither.
StartedScan(ip, sm) ==
    [started |-> TRUE, ip |-> ip, mask |-> sm,
     first |-> ScanTarget(0), last |-> ScanTarget(LastHost)]

\* The scan stream whatever scan_progress is.
SubscriptionAlways(sp) == "running"

\* subscription_common (main.rs:276-283): the scan stream, unless
\* scan_progress is 255.
Subscription(sp) == IF sp = 255 THEN "none" ELSE "running"

\* The addresses ChangeConfig::StartingIp is given.
StartingIps == {Ipv4Addr(192, 168, 1, 1), Ipv4Addr(10, 0, 0, 77)}

\* What the scan page leaves alone.
beside_gui ==
    <<session, overflowChecks, subnet_mask, config_ports, starting_ip, out, callbacks, runtime,
      slider, pingers>>

\* AppConfig::update with ChangeConfig::StartingIp (settings.rs:163).
ChangeStartingIp ==
    \E ip \in StartingIps :
        /\ starting_ip' = ip
        /\ UNCHANGED <<session, overflowChecks, subnet_mask, config_ports, out, scans, gui,
                       callbacks, runtime, slider, pingers>>

\* The slider positions the model moves to.
SliderValues == {8, 16, 24, 25, 30, 32}

\* The slider's message (subnet_slider.rs:240-245, main.rs:121-123): a value
\* in 1..32, sent as text and parsed back (settings.rs:164).
SlideSubnetMask ==
    \E v \in SliderValues :
        /\ subnet_mask' = UnwrapOrDefault(ParseU8(to_string(v)))
        /\ UNCHANGED <<session, overflowChecks, config_ports, starting_ip, out, scans, gui,
                       callbacks, runtime, slider, pingers>>

\* Msg::BeginScan (main.rs:249), sent by the button shown while ips is
\* empty (ip_scan.rs:13-27).  The subscription has a fixed id: a stream the
\* runtime already holds goes on, otherwise a scan is started.
BeginScan ==
    /\ ips_len = 0
    /\ scan_progress' = 0
    /\ scanning' = TRUE
    /\ stream' = Subscription(0)
    /\ IF stream = "running"
       THEN UNCHANGED <<produced, scans>>
       ELSE /\ produced' = 0
            /\ scan' = StartedScan(starting_ip, subnet_mask)
            /\ prev_scan' = scan
    /\ UNCHANGED <<beside_gui, ips_len>>

\* Msg::PingResult (main.rs:232-235), from a Result event of the held
\* stream; a scan yields at most one per host.
PingResult ==
    /\ stream = "running"
    /\ produced <= LastHost
    /\ produced' = produced + 1
    /\ scan_progress' = (scan_progress + 1) % 256
    /\ ips_len' = ips_len + 1
    /\ stream' = Subscription((scan_progress + 1) % 256)
    /\ UNCHANGED <<beside_gui, scans, scanning>>

\* Msg::ScanComplete (main.rs:250), from the Complete event of the held
\* stream.
ScanComplete ==
    /\ stream = "running"
    /\ scan_progress' = 255
    /\ scanning' = FALSE
    /\ stream' = Subscription(255)
    /\ UNCHANGED <<beside_gui, scans, ips_len, produced>>

AppSpecInit ==
    /\ AppInit
    /\ NoSession
    /\ overflowChecks = FALSE

AppNext ==
    \/ BeginScan
    \/ PingResult
    \/ ScanComplete

\* The scan page under the default configuration.
AppSpec == AppSpecInit /\ [][AppNext]_vars

TargetNext ==
    \/ ChangeStartingIp
    \/ SlideSubnetMask
    \/ BeginScan
    \/ ScanComplete

\* Configuration changes and scans that find no host.
TargetSpec == AppSpecInit /\ [][TargetNext]_vars

\* x with all but its p most significant bits cleared, for p in 1..32.
Masked(x, p) ==
    IF p <= 16
    THEN <<x[1] - (x[1] % (2 ^ (16 - p))), 0>>
    ELSE <<x[1], x[2] - (x[2] % (2 ^ (32 - p)))>>

\* x + y in 32-bit unsigned arithmetic.
AddU32(x, y) ==
    <<(x[1] + y[1] + ((x[2] + y[2]) \div Half)) % Half, (x[2] + y[2]) % Half>>

\* The range of the configuration (ip, p): its first and last address.
RangeOf(ip, p) == <<Masked(ip, p), AddU32(Masked(ip, p), MaxOffset(p))>>

\* C11: for every base address and prefix p in [1,32], the n-th target of
\* the range (n from 0 to 2^(32-p)-1, in increasing order) is the base
\* address masked to p plus n: the targets of a scan run from the masked
\* base, the network address, to the masked base plus 2^(32-p)-1, the
\* broadcast address.
C11_TargetsAreTheRange ==
    (scan.started /\ scan.mask \in 1..32) =>
        /\ scan.first = Masked(scan.ip, scan.mask)
        /\ scan.last = AddU32(Masked(scan.ip, scan.mask), MaxOffset(scan.mask))

\* C13: the set of addresses a scan probes is determined by the starting IP
\* and subnet mask in force when the scan starts: two scans started under
\* configurations whose ranges differ probe different target sets.
C13_ConfigDeterminesTargets ==
    (/\ scan.started
     /\ prev_scan.started
     /\ RangeOf(scan.ip, scan.mask) # RangeOf(prev_scan.ip, prev_scan.mask)) =>
        <<scan.first, scan.last>> # <<prev_scan.first, prev_scan.last>>

\* C14: from the processing of BeginScan until ScanComplete is processed,
\* the application stays subscribed to the scan stream, for any number of
\* Result events received in between.
C14_SubscribedUntilComplete == scanning => stream = "running"

(***************************************************************************)
(* The callback variant scan_network_async (scanner.rs:63-106).            *)
(***************************************************************************)
\* The number of addresses the loop `for n in 0..=255` dispatches, cut to
\* what the model dispatches.
CbHosts == IF LastHost + 1 < MaxTargets THEN LastHost + 1 ELSE MaxTargets

ResultCall(scanned_ip) == [cb |-> "result", ip |-> scanned_ip]

CompleteCall == [cb |-> "complete"]

\* Every outcome is handed to result_callback, a failure as alive = false.
CbCallsAll(t, o, d) ==
    IF o = "reply" THEN <<ResultCall(ScannedIp(t, TRUE, d, <<>>))>>
    ELSE <<ResultCall(ScannedIp(t, FALSE, 0, <<>>))>>

\* What a probe future calls when its ping resolves (scanner.rs:81-94).
CbCalls(t, o, d) ==
    IF o = "reply" THEN <<ResultCall(ScannedIp(t, TRUE, d, <<>>))>>
    ELSE <<>>

\* What the callback variant leaves alone.
beside_callback ==
    <<mask, overflowChecks, clientOk, rx, ip_range, senders, sent, recvCount, resolved,
      subnet_mask, config_ports, starting_ip, out, scans, gui, runtime, slider, pingers>>

CallbackInit ==
    /\ AppInit
    /\ mask = 24
    /\ overflowChecks = FALSE
    /\ clientOk \in BOOLEAN
    /\ rx = "none"
    /\ pc = "none"
    /\ ip_range = U32Zero
    /\ n = 0
    /\ ping_futures = <<>>
    /\ senders = 0
    /\ sent = <<>>
    /\ recvCount = 0
    /\ resolved = <<>>

\* Client::new(..).unwrap_or_default(): a failure goes unnoticed.
CbCreateClientUnchecked ==
    /\ pc = "none"
    /\ pc' = "dispatch"
    /\ UNCHANGED <<beside_callback, n, ping_futures, calls, ret>>

\* scanner.rs:71: Client::new(..)?; a failure is returned to the caller.
CbCreateClient ==
    /\ pc = "none"
    /\ IF clientOk
       THEN pc' = "dispatch" /\ UNCHANGED ret
       ELSE pc' = "returned" /\ ret' = "Err"
    /\ UNCHANGED <<beside_callback, n, ping_futures, calls>>

\* scanner.rs:74-97: one iteration of the loop; the future is pushed, not
\* yet polled.
CbDispatch ==
    /\ pc = "dispatch"
    /\ n < CbHosts
    /\ ping_futures' = Append(ping_futures, "created")
    /\ n' = n + 1
    /\ UNCHANGED <<beside_callback, pc, calls, ret>>

\* scanner.rs:97-100: the loop is over, join_all takes the futures.
CbEndDispatch ==
    /\ pc = "dispatch"
    /\ n = CbHosts
    /\ pc' = "poll"
    /\ n' = 0
    /\ UNCHANGED <<beside_callback, ping_futures, calls, ret>>

\* Probe future i resolves with outcome o and round-trip time d
\* (scanner.rs:81-94).
CbResolveProbe(i, o, d) ==
    /\ ping_futures' = [ping_futures EXCEPT ![i] = o]
    /\ calls' = calls \o CbCalls(i - 1, o, d)

\* scanner.rs:100: the first poll of join_all polls every future once, in
\* push order.
CbPollFirst ==
    /\ pc = "poll"
    /\ n < Len(ping_futures)
    /\ \/ /\ ping_futures' = [ping_futures EXCEPT ![n + 1] = "inflight"]
          /\ UNCHANGED calls
       \/ CbResolveProbe(n + 1, "error", 0)
    /\ pc' = IF n + 1 = Len(ping_futures) THEN "joining" ELSE "poll"
    /\ n' = n + 1
    /\ UNCHANGED <<beside_callback, ret>>

\* scanner.rs:79-94, 100: a ping in flight resolves by a reply, by its
\* timeout or by a transport error.
CbResolve ==
    /\ pc = "joining"
    /\ \E i \in 1..Len(ping_futures), o \in Outcomes, d \in 0..MaxPingMs :
          /\ ping_futures[i] = "inflight"
          /\ o = "reply" \/ d = 0
          /\ CbResolveProbe(i, o, d)
    /\ UNCHANGED <<beside_callback, pc, n, ret>>

\* scanner.rs:100-103: join_all is ready; complete_callback is called.
CbComplete ==
    /\ pc = "joining"
    /\ AllResolved
    /\ calls' = Append(calls, CompleteCall)
    /\ pc' = "complete"
    /\ UNCHANGED <<beside_callback, n, ping_futures, ret>>

\* scanner.rs:105: Ok(()).
CbReturn ==
    /\ pc = "complete"
    /\ ret' = "Ok"
    /\ pc' = "returned"
    /\ UNCHANGED <<beside_callback, n, ping_futures, calls>>

CallbackNext ==
    \/ CbCreateClient
    \/ CbDispatch
    \/ CbEndDispatch
    \/ CbPollFirst
    \/ CbResolve
    \/ CbComplete
    \/ CbReturn

CallbackSpec == CallbackInit /\ [][CallbackNext]_vars

\* The caller awaits the function to its end, and every ping resolves, by
\* its timeout at the latest.
CallbackFairSpec == CallbackSpec /\ WF_vars(CallbackNext)

\* The invocations of result_callback for target t, and of complete_callback.
ResultCallsFor(t) ==
    {j \in 1..Len(calls) : calls[j].cb = "result" /\ calls[j].ip.ip = t}

CompleteCalls == {j \in 1..Len(calls) : calls[j].cb = "complete"}

CallbackOrder ==
    /\ \A i \in 1..Len(ping_futures) :
          Cardinality(ResultCallsFor(i - 1)) = IF ping_futures[i] = "reply" THEN 1 ELSE 0
    /\ \A j \in 1..Len(calls) :
          calls[j].cb = "result" =>
              /\ calls[j].ip.ip \in 0..(Len(ping_futures) - 1)
              /\ calls[j].ip.alive
    /\ Cardinality(CompleteCalls) <= 1
    /\ \A j \in CompleteCalls :
          /\ j = Len(calls)
          /\ AllResolved
          /\ Len(ping_futures) = CbHosts
    /\ ret = "Ok" => Cardinality(CompleteCalls) = 1

\* C15: in the callback variant, result_callback is invoked exactly once for
\* each address whose ping succeeded and never for an address whose ping
\* failed, and complete_callback is invoked exactly once, after the last
\* result_callback invocation and only when all pings have resolved: at
\* most once at any time, and a call whose client was created goes on to
\* invoke it and return Ok.
C15_CallbackContract ==
    /\ []CallbackOrder
    /\ (pc = "none" /\ clientOk) ~> (ret = "Ok" /\ Cardinality(CompleteCalls) = 1)

C15_Witness ==
    /\ ret = "Ok"
    /\ Replied # {}
    /\ Failed # {}
    /\ Len(calls) = Cardinality(Replied) + 1
    /\ calls[Len(calls)] = CompleteCall

\* C26: every Result event emitted by the channel scanner has alive = true
\* and an empty port list, and names a target whose ping was answered: a
\* host that did not answer the echo probe is never reported on the channel.
C26_OnlyAliveReported ==
    \A j \in 1..Len(sent) :
        IsResult(sent[j]) =>
            /\ sent[j].ip.alive = TRUE
            /\ sent[j].ip.ports = <<>>
            /\ sent[j].ip.ip + 1 \in Replied

C26_Witness ==
    /\ pc = "done"
    /\ Cardinality(Failed) = 2
    /\ Cardinality(Replied) = 2
    /\ Cardinality(Reported) = 2

\* C29: in the callback variant, when the ping client cannot be created the
\* function returns an error before dispatching any probe, and neither
\* result_callback nor complete_callback is ever invoked.
C29_ClientFailureReturnsErr ==
    /\ ~clientOk => (ping_futures = <<>> /\ calls = <<>> /\ ret # "Ok")
    /\ (~clientOk /\ pc # "none") => (pc = "returned" /\ ret = "Err")
    /\ ret = "Err" => ~clientOk

C29_Witness ==
    /\ ~clientOk
    /\ pc = "returned"
    /\ ret = "Err"
    /\ calls = <<>>
    /\ ping_futures = <<>>

\* C22: for every prefix length p in [1,32], subnet_mask_long, each octet
\* computed by left_shift in 8-bit arithmetic, returns the same dotted
\* string as to_dotted_decimal(p).
C22_LongEqualsDotted ==
    subnet_mask \in 1..32 =>
        /\ Computed("subnet_mask_long") => out.value = to_dotted_decimal(subnet_mask)
        /\ Computed("to_dotted_decimal") => out.value = subnet_mask_long(subnet_mask)

C22_Witness ==
    /\ Computed("subnet_mask_long")
    /\ subnet_mask = 17
    /\ out.value = <<"2", "5", "5", ".", "2", "5", "5", ".", "1", "2", "8", ".", "0">>

\* a < b for two f32 values that are not negative.
F32Less(a, b) ==
    IF a.m = 0 THEN b.m > 0
    ELSE IF b.m = 0 THEN FALSE
    ELSE a.e > b.e \/ (a.e = b.e /\ a.m < b.m)

\* f is k / 31 to within half a unit of its last mantissa bit.
F32IsKOver31(f, k) ==
    IF f.m = 0 THEN k = 0
    ELSE /\ f.m >= 2 ^ 23
         /\ f.m < 2 ^ 24
         /\ 2 * (31 * f.m - k * (2 ^ (23 + f.e))) <= 31
         /\ 2 * (k * (2 ^ (23 + f.e)) - 31 * f.m) <= 31

\* The value given to SubnetSlider::new, brought into [1,32].
StoredValue == IF subnet_mask < 1 THEN 1 ELSE IF subnet_mask > 32 THEN 32 ELSE subnet_mask

\* C30: for every u8 value given to SubnetSlider::new, the stored value is
\* clamped into [1,32] and fill_percentage equals (value - 1) / 31 of the
\* clamped value: it is 0 exactly at 1, 1 exactly at 32, and strictly
\* increasing in between.
C30_FillPercentage ==
    /\ Computed("new") => (out.value \in 1..32 /\ out.value = StoredValue)
    /\ Computed("fill_percentage") =>
          /\ F32IsKOver31(out.value, StoredValue - 1)
          /\ out.value = F32Zero <=> StoredValue = 1
          /\ out.value = F32One <=> StoredValue = 32
          /\ \A w \in 1..32 :
                /\ w < StoredValue => F32Less(fill_percentage(w), out.value)
                /\ w > StoredValue => F32Less(out.value, fill_percentage(w))

C30_Witness ==
    /\ Computed("fill_percentage")
    /\ subnet_mask = 16
    /\ out.value = [m |-> 16236015, e |-> 2]

(***************************************************************************)
(* The ports setting and its text form (settings.rs:49-51, 138-144,        *)
(* 165-167).                                                               *)
(***************************************************************************)
MaxPortsTextLen == 4

\* The characters typed into the ports field.
PortsAlphabet == {"0", "4", "8", ",", " "}

PortsTexts == UNION {[1..k -> PortsAlphabet] : k \in 0..MaxPortsTextLen}

\* Vec<String>::join(sep)
RECURSIVE Join(_, _)
Join(strs, sep) ==
    IF strs = <<>> THEN <<>>
    ELSE IF Len(strs) = 1 THEN strs[1]
    ELSE strs[1] \o sep \o Join(Tail(strs), sep)

\* AppConfig::ports_to_string (settings.rs:138-144)
ports_to_string(ps) == Join([i \in 1..Len(ps) |-> to_string(ps[i])], <<",", " ">>)

\* str::split(','): the pieces between the commas, empty ones included.
RECURSIVE Split(_, _)
Split(str, piece) ==
    IF str = <<>> THEN <<piece>>
    ELSE IF Head(str) = "," THEN <<piece>> \o Split(Tail(str), <<>>)
    ELSE Split(Tail(str), Append(piece, Head(str)))

\* The digit loop of str::parse::<u16>.
RECURSIVE ParseDigits16(_, _)
ParseDigits16(ds, acc) ==
    IF ds = <<>> THEN Ok(acc)
    ELSE IF ~IsDigit(Head(ds)) THEN Err
    ELSE LET v == acc * 10 + DigitVal(Head(ds))
         IN  IF v > 65535 THEN Err ELSE ParseDigits16(Tail(ds), v)

\* str::parse::<u16> (settings.rs:166): no white space is skipped.
ParseU16(str) ==
    IF str = <<>> THEN Err
    ELSE IF Len(str) = 1 /\ str[1] = "+" THEN Err
    ELSE IF str[1] = "+" THEN ParseDigits16(Tail(str), 0)
    ELSE ParseDigits16(str, 0)

\* filter_map(|p| p.parse().ok()).collect()
RECURSIVE FilterMapParse(_)
FilterMapParse(pieces) ==
    IF pieces = <<>> THEN <<>>
    ELSE LET r == ParseU16(Head(pieces))
         IN  (IF r.ok THEN <<r.val>> ELSE <<>>) \o FilterMapParse(Tail(pieces))

\* The list AppConfig::update stores for ChangeConfig::Ports(text)
\* (settings.rs:165-167).
ParsePorts(text) == FilterMapParse(Split(text, <<>>))

\* What the operations on the ports setting leave alone.
beside_ports ==
    <<session, overflowChecks, subnet_mask, starting_ip, scans, gui, callbacks, runtime,
      slider, pingers>>

\* ChangeConfig::Ports with a text typed into the field (settings.rs:49-51).
UpdatePorts ==
    \E text \in PortsTexts :
        /\ config_ports' = ParsePorts(text)
        /\ out' = NoOut
        /\ UNCHANGED beside_ports

\* The text the field shows (settings.rs:49).
PortsToString ==
    /\ out' = [op |-> "ports_to_string", value |-> ports_to_string(config_ports)]
    /\ UNCHANGED <<beside_ports, config_ports>>

\* ChangeConfig::Ports with the text the field shows; out keeps the list
\* the configuration held before.
PortsRoundTrip ==
    /\ config_ports' = ParsePorts(ports_to_string(config_ports))
    /\ out' = [op |-> "ports_round_trip", value |-> config_ports]
    /\ UNCHANGED beside_ports

PortsNext ==
    \/ UpdatePorts
    \/ PortsToString
    \/ PortsRoundTrip

PortsSpec == AppSpecInit /\ [][PortsNext]_vars

\* C28: for every port list L, applying ChangeConfig::Ports(text) with
\* text = ports_to_string() of a configuration holding L leaves config.ports
\* equal to L, in the same order.
C28_PortsRoundTrip == Computed("ports_round_trip") => config_ports = out.value

(***************************************************************************)
(* The scan page with its messages in flight.  The stream runs on the      *)
(* executor and hands its messages to the event loop; the event loop       *)
(* processes the messages it has, one update_state call each, and asks     *)
(* for the subscription (main.rs:276-283) after the last of them.          *)
(***************************************************************************)
MaxInbox == 2

MaxResults == 300

\* The tabs the user moves between (settings.rs:299-307).
Tabs == {"IpScan", "TCPclient", "Settings"}

\* What the scan page and its messages leave alone.
beside_page ==
    <<session, overflowChecks, subnet_mask, config_ports, starting_ip, out, callbacks,
      slider, pingers>>

\* The held stream yields a Result event (app/src/views/ip_scan.rs:101-109):
\* a PingResult message is on its way.
StreamYield ==
    /\ overflowed # "panicked"
    /\ stream = "running"
    /\ produced <= LastHost
    /\ inbox < MaxInbox
    /\ ips_len + inbox < MaxResults
    /\ inbox' = inbox + 1
    /\ produced' = produced + 1
    /\ UNCHANGED <<beside_page, scans, scan_progress, ips_len, stream, scanning, overflowed, tab>>

\* Msg::PingResult (main.rs:232-235) taken from the messages in flight.
\* At 255 the increment overflows: a build with overflow checks panics, a
\* build without them wraps to 0.  Unless more messages wait, the
\* subscription is asked for: the stream is dropped at 255, and started if
\* none is held.
DeliverPingResult ==
    /\ overflowed # "panicked"
    /\ inbox > 0
    /\ inbox' = inbox - 1
    /\ IF scan_progress = 255 /\ overflowChecks
       THEN /\ overflowed' = "panicked"
            /\ UNCHANGED <<scan_progress, ips_len, stream, produced, scans>>
       ELSE /\ overflowed' = IF scan_progress = 255 THEN "wrapped" ELSE overflowed
            /\ scan_progress' = (scan_progress + 1) % 256
            /\ ips_len' = ips_len + 1
            /\ \/ /\ inbox > 1
                  /\ UNCHANGED <<stream, produced, scans>>
               \/ /\ stream' = Subscription((scan_progress + 1) % 256)
                  /\ IF stream = "none" /\ Subscription((scan_progress + 1) % 256) = "running"
                     THEN /\ produced' = 0
                          /\ scan' = StartedScan(starting_ip, subnet_mask)
                          /\ prev_scan' = scan
                     ELSE UNCHANGED <<produced, scans>>
    /\ UNCHANGED <<beside_page, scanning, tab>>

\* Msg::ScanComplete: the stream yields Complete after its last Result, so
\* the message is processed once no PingResult of the stream waits.
DeliverScanComplete ==
    /\ overflowed # "panicked"
    /\ inbox = 0
    /\ ScanComplete

\* Msg::BeginScan, from the button of the scan tab.
PressBeginScan ==
    /\ overflowed # "panicked"
    /\ inbox = 0
    /\ tab = "IpScan"
    /\ BeginScan

\* Msg::TabChanged (main.rs:248); like the TCP, UDP and configuration
\* messages (main.rs:236-251) it leaves scan_progress and ips alone.
TabChanged ==
    /\ overflowed # "panicked"
    /\ \E t \in Tabs \ {tab} : tab' = t
    /\ UNCHANGED <<beside_page, scans, gui, inbox, overflowed>>

RuntimeInit ==
    /\ AppInit
    /\ NoSession
    /\ overflowChecks \in BOOLEAN

RuntimeNext ==
    \/ PressBeginScan
    \/ StreamYield
    \/ DeliverPingResult
    \/ DeliverScanComplete
    \/ TabChanged

RuntimeSpec == RuntimeInit /\ [][RuntimeNext]_vars

\* C23: the 8-bit progress counter never overflows: in every reachable
\* application state the increment scan_progress += 1 performed on
\* PingResult is executed only when scan_progress < 255.
C23_ProgressNeverOverflows == overflowed = "no"

C25_CanScanAgain == (scan.started /\ ~scanning) => ENABLED BeginScan

(***************************************************************************)
(* What each probe of create_network_scanner is told apart by              *)
(* (scanner.rs:144-155): the identifier its pinger is created with and the *)
(* sequence number of its one echo request.  The loop counter n is a u32;  *)
(* the model follows the counters at the start of the blocks of 2^16.      *)
(***************************************************************************)
MaxHigh == 1

MaxLow == 1

\* The prefix lengths the scanner is started with.
ScanMasks == 0..32

\* The loop counters the model follows.
Counters == {<<h, l>> : h \in 0..MaxHigh, l \in 0..MaxLow}

\* a <= b for 32-bit values.
Le32(a, b) == a[1] < b[1] \/ (a[1] = b[1] /\ a[2] <= b[2])

\* `n as u16` (scanner.rs:154): the low 16 bits of n.
AsU16(x) == x[2]

\* client.pinger(ip, PingIdentifier(0)) and .ping((n as u16).into(), &[])
\* (scanner.rs:151-154) for the loop counter t.
Pinger(t) == [target |-> t, ident |-> 0, seq |-> AsU16(t)]

\* What the dispatch of a probe leaves alone.
beside_pingers ==
    <<session, overflowChecks, subnet_mask, config_ports, starting_ip, out, scans, gui,
      callbacks, runtime, slider>>

\* scanner.rs:145-155: the iteration of `for n in 0..=ip_range` for a
\* counter the model follows; the loop takes them in increasing order.
DispatchPinger ==
    /\ pc = "dispatch"
    /\ \E t \in Counters :
        /\ Le32(t, ip_range)
        /\ \A p \in pingers : ~Le32(t, p.target)
        /\ pingers' = pingers \cup {Pinger(t)}
    /\ UNCHANGED beside_pingers

CorrelationInit ==
    /\ AppInit
    /\ mask \in ScanMasks
    /\ overflowChecks \in BOOLEAN
    /\ clientOk \in BOOLEAN
    /\ rx = "none"
    /\ pc = "none"
    /\ ip_range = U32Zero
    /\ n = 0
    /\ ping_futures = <<>>
    /\ senders = 0
    /\ sent = <<>>
    /\ recvCount = 0
    /\ resolved = <<>>

CorrelationNext ==
    \/ StartScan
    \/ CreateClient
    \/ ComputeRange
    \/ DispatchPinger

CorrelationSpec == CorrelationInit /\ [][CorrelationNext]_vars

\* C21: each probe carries its own correlation identifier: within one
\* session, for every range size up to 2^32 targets, the (ping identifier,
\* 16-bit sequence number) pairs carried by the probes of two distinct
\* targets are different.
C21_DistinctCorrelation ==
    \A p, q \in pingers :
        p.target # q.target => <<p.ident, p.seq>> # <<q.ident, q.seq>>

(***************************************************************************)
(* The subnet slider's canvas (subnet_slider.rs:228-271).  The cursor is   *)
(* at one of SliderWidth positions inside the bounds, or outside them;     *)
(* cursor.position_in(bounds) is Some of the position in the first case    *)
(* and None in the second.                                                 *)
(***************************************************************************)
SliderWidth == 64

\* The events the canvas hands to update.
EventKinds ==
    {"ButtonPressed(Left)", "ButtonReleased(Left)", "CursorMoved",
     "ButtonPressed(Right)", "ButtonReleased(Right)"}

\* Where the cursor can be.
Cursors ==
    {[inside |-> FALSE, x |-> 0]} \cup {[inside |-> TRUE, x |-> x] : x \in 0..(SliderWidth - 1)}

\* subnet_slider.rs:239-241, 257-259: relative_x = x / bounds.width;
\* (1.0 + relative_x.clamp(0.0, 1.0) * 31.0).round() as u8, clamped to
\* 1..32.  round() takes a half away from zero, the cast saturates.  The
\* value is computed here in exact arithmetic: where 1 + 31 x / width is
\* not exact in f32 it lies further from a half than the rounding error.
new_value(x) ==
    LET rel == IF x < 0 THEN 0 ELSE IF x > SliderWidth THEN SliderWidth ELSE x
        rounded == (2 * (SliderWidth + 31 * rel) + SliderWidth) \div (2 * SliderWidth)
        as_u8 == IF rounded > 255 THEN 255 ELSE rounded
    IN  Clamp(as_u8)

\* update with the drag state ignored on CursorMoved.
update_without_drag_check(dragging, ev) ==
    CASE ev.kind = "ButtonPressed(Left)" /\ ev.inside ->
            [is_dragging |-> TRUE, status |-> "Captured", message |-> <<new_value(ev.x)>>]
      [] ev.kind = "ButtonReleased(Left)" ->
            [is_dragging |-> FALSE, status |-> "Captured", message |-> <<>>]
      [] ev.kind = "CursorMoved" /\ ev.inside ->
            [is_dragging |-> dragging, status |-> "Captured", message |-> <<new_value(ev.x)>>]
      [] OTHER ->
            [is_dragging |-> dragging, status |-> "Ignored", message |-> <<>>]

\* SubnetSliderCanvas::update (subnet_slider.rs:228-271): the new drag
\* state, the status and the message returned.
update(dragging, ev) ==
    CASE ev.kind = "ButtonPressed(Left)" /\ ev.inside ->
            [is_dragging |-> TRUE, status |-> "Captured", message |-> <<new_value(ev.x)>>]
      [] ev.kind = "ButtonReleased(Left)" ->
            [is_dragging |-> FALSE, status |-> "Captured", message |-> <<>>]
      [] ev.kind = "CursorMoved" /\ dragging /\ ev.inside ->
            [is_dragging |-> dragging, status |-> "Captured", message |-> <<new_value(ev.x)>>]
      [] OTHER ->
            [is_dragging |-> dragging, status |-> "Ignored", message |-> <<>>]

\* What the slider leaves alone.
beside_slider ==
    <<session, overflowChecks, subnet_mask, config_ports, starting_ip, out, scans, gui,
      callbacks, runtime, pingers>>

\* The canvas hands an event to update.  held follows the events alone.
SliderUpdate ==
    \E k \in EventKinds, c \in Cursors :
        LET ev == [kind |-> k, inside |-> c.inside, x |-> c.x]
            r == update(is_dragging, ev)
        IN  /\ is_dragging' = r.is_dragging
            /\ event' = ev
            /\ returned' = [status |-> r.status, message |-> r.message]
            /\ held' = IF k = "ButtonPressed(Left)" /\ c.inside THEN TRUE
                       ELSE IF k = "ButtonReleased(Left)" THEN FALSE
                       ELSE held
            /\ UNCHANGED beside_slider

\* The slider is laid out anew (the settings tab is left and entered
\* again): its state is SubnetSliderState::default() (subnet_slider.rs:130).
SliderRebuilt ==
    /\ is_dragging' = FALSE
    /\ event' = NoEvent
    /\ returned' = NoReturn
    /\ UNCHANGED <<held, beside_slider>>

SliderInit ==
    /\ AppInit
    /\ NoSession
    /\ overflowChecks \in BOOLEAN

SliderNext ==
    \/ SliderUpdate
    \/ SliderRebuilt

SliderSpec == SliderInit /\ [][SliderNext]_vars

\* C27: the subnet slider emits a change message on cursor movement only
\* while a drag is in progress: a CursorMoved event yields an on_change
\* message only if a left ButtonPressed inside the bounds has occurred and
\* no left ButtonReleased has occurred since; a press outside the bounds
\* leaves the drag state unchanged, and every emitted value lies in [1,32].
C27_MessagesOnlyWhileDragging ==
    /\ [](/\ (event.kind = "CursorMoved" /\ returned.message # <<>>) => held
          /\ returned.message # <<>> => returned.message[1] \in 1..32)
    /\ [][(event'.kind = "ButtonPressed(Left)" /\ ~event'.inside)
            => is_dragging' = is_dragging]_vars

C27_Witness ==
    /\ event.kind = "CursorMoved"
    /\ event.inside
    /\ held
    /\ returned = [status |-> "Captured", message |-> <<32>>]

====
